---- MODULE Spec2Model ----
(***************************************************************************)
(* AliOssService (lib/ali-oss-service.js): the adapter between the        *)
(* container/file storage abstraction and the object-storage provider.    *)
(* The provider (aliyun-sdk client, aliyun-oss-upload-stream) is the      *)
(* environment: a set of buckets and a map (bucket, key) -> object.       *)
(* Names, keys and bodies are sequences, so that the key composition      *)
(* container + '/' + file and String.replace are computed, not assumed.   *)
(***************************************************************************)
EXTENDS Integers, Sequences, FiniteSets, TLC

VARIABLES options, buckets, objects, last, mw

vars == <<options, buckets, objects, last, mw>>

(* ------------------------------ bounds --------------------------------- *)

\* Longest body a caller writes to an upload stream.
MaxBody == 1
\* Most file parts in one multipart request body.
MaxParts == 2

(* ------------------------- program constants --------------------------- *)

DefaultStatus == 500
MaxKeys == 1000

(* ------------------------------ inputs --------------------------------- *)

Slash == "/"

Containers == { <<"d">>, <<"d", "/", "e">> }

Files == { <<>>, <<"r">>, <<"e", "/", "r">> }

Bodies == { [i \in 1..n |-> 7] : n \in 1..MaxBody }

\* self.options.bucket: a configured string, or undefined.
BucketOptions == { [isString |-> TRUE, str |-> <<"b">>],
                   [isString |-> FALSE, str |-> <<>>] }

\* Transport outcomes of one provider call: "none" lets the provider answer;
\* "net" is an error object without statusCode, "nodata" is a null error
\* together with a null result. (Errors that carry a statusCode are the
\* provider's own answers: NoSuchKey, NoSuchBucket, BucketNotEmpty, ...)
Faults == { "none", "net", "nodata" }

(* --------------------------- string helpers ---------------------------- *)

IsPrefix(p, s) == Len(p) <= Len(s) /\ SubSeq(s, 1, Len(p)) = p

HasDelimiter(s) == \E i \in 1..Len(s) : s[i] = Slash

\* Position of the first occurrence of pat in s, 0 when there is none.
IndexOf(s, pat) ==
    LET hits == { i \in 1..(Len(s) - Len(pat) + 1) :
                    SubSeq(s, i, i + Len(pat) - 1) = pat }
    IN IF hits = {} THEN 0 ELSE CHOOSE i \in hits : \A j \in hits : i <= j

\* String.prototype.replace(pat, ''): the first occurrence of pat is removed.
Replace(s, pat) ==
    LET i == IndexOf(s, pat)
    IN IF i = 0 THEN s
       ELSE SubSeq(s, 1, i - 1) \o SubSeq(s, i + Len(pat), Len(s))

(* ------------------------------ errors --------------------------------- *)

Null == [null |-> TRUE, message |-> "", name |-> "", statusCode |-> 0]

ProviderErr(name, message, code) ==
    [null |-> FALSE, message |-> message, name |-> name, statusCode |-> code]

NoSuchKey == ProviderErr("NoSuchKey", "The specified key does not exist.", 404)
NoSuchBucket == ProviderErr("NoSuchBucket", "The specified bucket does not exist.", 404)
BucketNotEmpty == ProviderErr("BucketNotEmpty", "The bucket you tried to delete is not empty.", 409)
InvalidObjectName == ProviderErr("InvalidObjectName", "The specified object is not valid.", 400)

FaultErr(f) ==
    CASE f = "net" -> ProviderErr("NetworkingError", "", 0)
      [] OTHER -> Null

\* errorHandler: absent fields (and falsy ones) fall through the || chain.
errorHandlerMutStatus(err) ==
    [message |-> IF ~err.null /\ err.message # "" THEN err.message
                 ELSE IF ~err.null /\ err.name # "" THEN err.name
                 ELSE "Unknown Error",
     statusCode |-> DefaultStatus]

errorHandler(err) ==
    [message |-> IF ~err.null /\ err.message # "" THEN err.message
                 ELSE IF ~err.null /\ err.name # "" THEN err.name
                 ELSE "Unknown Error",
     statusCode |-> IF ~err.null /\ err.statusCode # 0 THEN err.statusCode
                    ELSE DefaultStatus]

(* --------------------- provider (the environment) ---------------------- *)

\* An object as the provider stores it; container and file record the
\* (container, file) pair whose operation wrote it (history only).
Object(body, container, file) ==
    [body |-> body, container |-> container, file |-> file]

Put(objs, bucket, key, obj) ==
    [p \in (DOMAIN objs) \cup {<<bucket, key>>} |->
        IF p = <<bucket, key>> THEN obj ELSE objs[p]]

Delete(objs, ps) == [p \in (DOMAIN objs) \ ps |-> objs[p]]

KeysIn(bucket) == { p[2] : p \in { q \in DOMAIN objects : q[1] = bucket } }

\* The error and the presence of a result that the SDK hands to the callback:
\* a transport fault replaces the provider's own answer.
CallErr(fault, natural) == IF fault = "none" THEN natural ELSE FaultErr(fault)

CallOk(fault, natural) == fault = "none" /\ natural.null

\* headObject / getObject
HeadErr(bucket, key) ==
    IF bucket \notin buckets THEN NoSuchBucket
    ELSE IF <<bucket, key>> \notin DOMAIN objects THEN NoSuchKey
    ELSE Null

\* putObject / multipart upload
PutErr(bucket, key) ==
    IF bucket \notin buckets THEN NoSuchBucket
    ELSE IF key = <<>> THEN InvalidObjectName
    ELSE Null

\* deleteBucket: the provider rejects a bucket that still holds a key.
DeleteBucketErr(bucket) ==
    IF bucket \notin buckets THEN NoSuchBucket
    ELSE IF KeysIn(bucket) # {} THEN BucketNotEmpty
    ELSE Null

BucketErr(bucket) == IF bucket \notin buckets THEN NoSuchBucket ELSE Null

\* listObjects with Delimiter '/': Contents holds the keys under the prefix
\* whose remainder has no delimiter, at most MaxKeys of them (one page).
Page(S) ==
    IF Cardinality(S) <= MaxKeys THEN S
    ELSE CHOOSE T \in SUBSET S : Cardinality(T) = MaxKeys

ListContents(bucket, prefix) ==
    Page({ k \in KeysIn(bucket) :
             IsPrefix(prefix, k)
             /\ ~HasDelimiter(SubSeq(k, Len(prefix) + 1, Len(k))) })

\* ... and CommonPrefixes the remainders cut after their first delimiter.
CommonPrefixes(bucket, prefix) ==
    { SubSeq(k, 1, Len(prefix) + IndexOf(SubSeq(k, Len(prefix) + 1, Len(k)), <<Slash>>)) :
        k \in { k2 \in KeysIn(bucket) :
                  IsPrefix(prefix, k2)
                  /\ HasDelimiter(SubSeq(k2, Len(prefix) + 1, Len(k2))) } }

\* _.trim(s, '/')
Trim(s) ==
    LET keep == { i \in 1..Len(s) : s[i] # Slash }
    IN IF keep = {} THEN <<>>
       ELSE SubSeq(s, CHOOSE i \in keep : \A j \in keep : i <= j,
                      CHOOSE i \in keep : \A j \in keep : j <= i)

(* ------------------------- key composition ----------------------------- *)

\* _.isString(self.options.bucket)
IsFixed == options.isString

\* self.options.bucket || alt
BucketOr(alt) ==
    IF options.isString /\ options.str # <<>> THEN options.str ELSE alt

createContainerKey(container) == container \o <<Slash>>

getContainerKeyMutNoSlash(container) == container

getContainerKey(container) == container \o <<Slash>>

\* uploadStream, downloadStream, getFile, removeFile and download each repeat
\* this branch.
FileBucket(container) == IF IsFixed THEN options.str ELSE container

FileKey(container, file) ==
    IF IsFixed THEN container \o <<Slash>> \o file ELSE file

(* ------------------------------- state --------------------------------- *)

Idle ==
    [op |-> "init", container |-> <<>>, file |-> <<>>, fault |-> "none",
     failed |-> FALSE, errStatus |-> 0, outcome |-> "none", status |-> 0,
     message |-> "", name |-> <<>>, names |-> {}, files |-> {}, size |-> 0,
     body |-> <<>>, stream |-> FALSE, after |-> "",
     resStatus |-> 0, resSent |-> FALSE]

NoRequest ==
    [active |-> FALSE, container |-> <<>>,
     optContainer |-> [defined |-> FALSE, str |-> <<>>],
     parts |-> <<>>, emitted |-> 0, pending |-> {}, cbCount |-> 0,
     acked |-> 0, thrown |-> FALSE]

\* The callback outcome of cb(errorHandler(err)).
Failed(rec, err) ==
    [rec EXCEPT !.failed = TRUE, !.errStatus = err.statusCode,
                !.outcome = "cb_err",
                !.status = errorHandler(err).statusCode,
                !.message = errorHandler(err).message]

Call(op, container, file, fault) ==
    [Idle EXCEPT !.op = op, !.container = container, !.file = file,
                 !.fault = fault]

Init ==
    /\ options \in BucketOptions
    /\ buckets = IF options.isString THEN {options.str} ELSE {}
    /\ objects = [p \in {} |-> Null]
    /\ last = Idle
    /\ mw = NoRequest

(* --------------------------- container API ----------------------------- *)

\* getContainers(cb)
GetContainers(fault) ==
    LET rec == Call("getContainers", <<>>, <<>>, fault)
        bucket == options.str
        natural == IF IsFixed THEN BucketErr(bucket) ELSE Null
        err == CallErr(fault, natural)
    IN /\ last' = IF ~CallOk(fault, natural) THEN Failed(rec, err)
                  ELSE IF IsFixed
                  THEN [rec EXCEPT !.outcome = "cb_ok",
                            !.names = { Trim(x) : x \in CommonPrefixes(bucket, <<>>) }]
                  ELSE [rec EXCEPT !.outcome = "cb_ok", !.names = buckets]
       /\ UNCHANGED <<options, buckets, objects, mw>>

\* createContainer(options, cb)
CreateContainer(container, fault) ==
    LET rec == Call("createContainer", container, <<>>, fault)
        bucket == options.str
        key == createContainerKey(container)
        natural == IF IsFixed THEN PutErr(bucket, key) ELSE Null
        err == CallErr(fault, natural)
    IN IF ~CallOk(fault, natural)
       THEN /\ last' = Failed(rec, err)
            /\ UNCHANGED <<options, buckets, objects, mw>>
       ELSE /\ last' = [rec EXCEPT !.outcome = "cb_ok", !.name = container]
            /\ IF IsFixed
               THEN /\ objects' = Put(objects, bucket, key, Object(<<>>, container, <<>>))
                    /\ UNCHANGED buckets
               ELSE /\ buckets' = buckets \cup {container}
                    /\ UNCHANGED objects
            /\ UNCHANGED <<options, mw>>

\* destroyContainer(container, cb); listFault and fault are the transport
\* outcomes of listObjects and of deleteObjects / deleteBucket.
DestroyContainer(container, listFault, fault) ==
    LET bucket == options.str
        prefix == container \o <<Slash>>
    IN IF IsFixed
       THEN LET rec == Call("destroyContainer", container, <<>>,
                            IF listFault # "none" THEN listFault ELSE fault)
                listNatural == BucketErr(bucket)
                keys == ListContents(bucket, prefix)
            IN IF ~CallOk(listFault, listNatural)
               THEN /\ last' = Failed(rec, CallErr(listFault, listNatural))
                    /\ UNCHANGED <<options, buckets, objects, mw>>
               ELSE IF ~CallErr(fault, Null).null
               THEN /\ last' = Failed(rec, CallErr(fault, Null))
                    /\ UNCHANGED <<options, buckets, objects, mw>>
               ELSE /\ last' = [rec EXCEPT !.outcome = "cb_ok"]
                    /\ objects' = Delete(objects, { <<bucket, k>> : k \in keys })
                    /\ UNCHANGED <<options, buckets, mw>>
       ELSE LET rec == Call("destroyContainer", container, <<>>, fault)
                err == CallErr(fault, DeleteBucketErr(container))
            IN /\ listFault = "none"
               /\ IF ~err.null
                  THEN /\ last' = Failed(rec, err)
                       /\ UNCHANGED <<options, buckets, objects, mw>>
                  ELSE /\ last' = [rec EXCEPT !.outcome = "cb_ok"]
                       /\ buckets' = buckets \ {container}
                       /\ UNCHANGED <<options, objects, mw>>

\* getContainer(container, cb)
GetContainer(container, fault) ==
    LET rec == [Call("getContainer", container, <<>>, fault) EXCEPT
                  !.after = IF /\ last.op = "createContainer"
                               /\ last.outcome = "cb_ok"
                               /\ last.container = container
                            THEN "createContainer" ELSE ""]
        natural == IF IsFixed
                   THEN HeadErr(options.str, getContainerKey(container))
                   ELSE BucketErr(container)
        err == CallErr(fault, natural)
    IN /\ last' = IF ~CallOk(fault, natural) THEN Failed(rec, err)
                  ELSE [rec EXCEPT !.outcome = "cb_ok", !.name = container]
       /\ UNCHANGED <<options, buckets, objects, mw>>

(* ------------------------------ file API ------------------------------- *)

\* uploadStream(container, file), followed by the caller writing body and
\* ending the stream and the provider completing (or failing) the upload.
UploadStream(container, file, body, fault) ==
    LET rec == Call("uploadStream", container, file, fault)
        bucket == BucketOr(container)
        key == FileKey(container, file)
        natural == PutErr(bucket, key)
        err == CallErr(fault, natural)
    IN IF ~CallOk(fault, natural)
       THEN /\ last' = [rec EXCEPT !.failed = TRUE, !.errStatus = err.statusCode,
                                   !.outcome = "error_event"]
            /\ UNCHANGED <<options, buckets, objects, mw>>
       ELSE /\ last' = [rec EXCEPT !.outcome = "uploaded", !.body = body,
                                   !.size = Len(body)]
            /\ objects' = Put(objects, bucket, key, Object(body, container, file))
            /\ UNCHANGED <<options, buckets, mw>>

\* downloadStream(container, file, options): nothing is returned, and the
\* provider callback either throws errorHandler(err) or reaches the call of
\* cb, a name that no scope declares.
DownloadStream(container, file, fault) ==
    LET rec == [Call("downloadStream", container, file, fault) EXCEPT
                  !.after = IF /\ last.op = "uploadStream"
                               /\ last.outcome = "uploaded"
                               /\ last.container = container
                               /\ last.file = file
                            THEN "uploadStream" ELSE ""]
        natural == HeadErr(FileBucket(container), FileKey(container, file))
        err == CallErr(fault, natural)
    IN /\ last' = IF ~CallOk(fault, natural)
                  THEN [rec EXCEPT !.failed = TRUE, !.errStatus = err.statusCode,
                                   !.outcome = "thrown",
                                   !.status = errorHandler(err).statusCode,
                                   !.message = errorHandler(err).message]
                  ELSE [rec EXCEPT !.outcome = "thrown",
                                   !.message = "ReferenceError: cb is not defined"]
       /\ UNCHANGED <<options, buckets, objects, mw>>

\* The entry getFiles maps a listed key to.
FileEntry(bucket, key, prefix) ==
    [name |-> IF prefix # <<>> THEN Replace(key, prefix) ELSE key,
     size |-> Len(objects[<<bucket, key>>].body)]

KeepEntryMutAll(entry) == TRUE

\* The filter of getFiles.
KeepEntry(entry) == entry.name # <<>>

\* What getFiles hands to cb for the provider's present content.
Listing(container) ==
    LET bucket == IF IsFixed THEN options.str ELSE container
        prefix == IF IsFixed THEN container \o <<Slash>> ELSE <<>>
    IN { e \in { FileEntry(bucket, k, prefix) : k \in ListContents(bucket, prefix) } :
           KeepEntry(e) }

\* getFiles(container, options, cb)
GetFiles(container, fault) ==
    LET rec == Call("getFiles", container, <<>>, fault)
        bucket == IF IsFixed THEN options.str ELSE container
        natural == BucketErr(bucket)
        err == CallErr(fault, natural)
    IN /\ last' = IF ~CallOk(fault, natural) THEN Failed(rec, err)
                  ELSE [rec EXCEPT !.outcome = "cb_ok", !.files = Listing(container)]
       /\ UNCHANGED <<options, buckets, objects, mw>>

\* getFile(container, file, cb)
GetFile(container, file, fault) ==
    LET rec == Call("getFile", container, file, fault)
        bucket == FileBucket(container)
        key == FileKey(container, file)
        natural == HeadErr(bucket, key)
        err == CallErr(fault, natural)
    IN /\ last' = IF ~CallOk(fault, natural) THEN Failed(rec, err)
                  ELSE [rec EXCEPT !.outcome = "cb_ok", !.name = file,
                                   !.size = Len(objects[<<bucket, key>>].body)]
       /\ UNCHANGED <<options, buckets, objects, mw>>

\* removeFile(container, file, cb)
RemoveFile(container, file, fault) ==
    LET rec == Call("removeFile", container, file, fault)
        bucket == FileBucket(container)
        key == FileKey(container, file)
        err == CallErr(fault, BucketErr(bucket))
    IN IF ~err.null
       THEN /\ last' = Failed(rec, err)
            /\ UNCHANGED <<options, buckets, objects, mw>>
       ELSE /\ last' = [rec EXCEPT !.outcome = "cb_ok"]
            /\ objects' = Delete(objects, {<<bucket, key>>})
            /\ UNCHANGED <<options, buckets, mw>>

\* download(container, file, req, res, cb): on failure res.status(...) has
\* run when the argument of send is evaluated, and errorHanlder is a name
\* that no scope declares.
Download(container, file, fault) ==
    LET rec == Call("download", container, file, fault)
        bucket == FileBucket(container)
        key == FileKey(container, file)
        natural == HeadErr(bucket, key)
        err == CallErr(fault, natural)
    IN /\ last' = IF ~CallOk(fault, natural)
                  THEN [rec EXCEPT !.failed = TRUE, !.errStatus = err.statusCode,
                           !.outcome = "thrown",
                           !.message = "ReferenceError: errorHanlder is not defined",
                           !.resStatus = IF ~err.null /\ err.statusCode # 0
                                         THEN err.statusCode ELSE DefaultStatus,
                           !.resSent = FALSE]
                  ELSE [rec EXCEPT !.outcome = "res_sent", !.resSent = TRUE,
                           !.body = objects[<<bucket, key>>].body]
       /\ UNCHANGED <<options, buckets, objects, mw>>

(* -------------------------- upload middleware -------------------------- *)

Parts == UNION { [1..n -> [filename : Files, body : Bodies]] : n \in 1..MaxParts }

OptContainers ==
    { [defined |-> FALSE, str |-> <<>>] }
      \cup { [defined |-> TRUE, str |-> c] : c \in Containers }

\* options.container || req.params.container
RequestContainer ==
    IF mw.optContainer.defined /\ mw.optContainer.str # <<>>
    THEN mw.optContainer.str ELSE mw.container

\* upload(req, res, options, cb): the parser is created and the request piped
\* into it; parts is the multipart body it will parse.
Upload(container, optContainer, parts) ==
    /\ ~mw.active
    /\ mw' = [NoRequest EXCEPT !.active = TRUE, !.container = container,
                               !.optContainer = optContainer, !.parts = parts]
    /\ UNCHANGED <<options, buckets, objects, last>>

\* The handler of the parser's 'file' event, for the next part of the body.
\* The Bucket of the upload is self.options.bucket || container, and
\* container is a name that no scope declares.
BusboyFile ==
    /\ mw.active /\ ~mw.thrown
    /\ mw.emitted < Len(mw.parts)
    /\ LET i == mw.emitted + 1
           part == mw.parts[i]
           rec == Call("upload", RequestContainer, part.filename, "none")
       IN IF options.isString /\ options.str # <<>>
          THEN /\ mw' = [mw EXCEPT !.emitted = i,
                            !.pending = @ \cup
                               { [part |-> i, bucket |-> options.str,
                                  key |-> RequestContainer \o <<Slash>> \o part.filename,
                                  container |-> RequestContainer,
                                  filename |-> part.filename,
                                  body |-> part.body] }]
               /\ last' = [rec EXCEPT !.outcome = "piped"]
          ELSE /\ mw' = [mw EXCEPT !.emitted = i, !.thrown = TRUE]
               /\ last' = [rec EXCEPT !.outcome = "thrown",
                              !.message = "ReferenceError: container is not defined"]
    /\ UNCHANGED <<options, buckets, objects>>

\* The provider completes one piped upload and the stream emits 'uploaded',
\* whose listener calls cb(null, details); or the upload fails and the
\* stream emits 'error', for which upload() registers no listener.
Uploaded(h, fault) ==
    /\ h \in mw.pending
    /\ LET rec == Call("upload", h.container, h.filename, fault)
           natural == PutErr(h.bucket, h.key)
           err == CallErr(fault, natural)
       IN IF ~CallOk(fault, natural)
          THEN /\ mw' = [mw EXCEPT !.pending = @ \ {h}]
               /\ last' = [rec EXCEPT !.failed = TRUE, !.errStatus = err.statusCode,
                                      !.outcome = "no_cb"]
               /\ UNCHANGED objects
          ELSE /\ mw' = [mw EXCEPT !.pending = @ \ {h}, !.cbCount = @ + 1,
                                   !.acked = @ + 1]
               /\ last' = [rec EXCEPT !.outcome = "cb_ok", !.body = h.body,
                                      !.size = Len(h.body)]
               /\ objects' = Put(objects, h.bucket, h.key,
                                 Object(h.body, h.container, h.filename))
    /\ UNCHANGED <<options, buckets>>

(* --------------------------- specifications ---------------------------- *)

\* Transport outcomes of a call whose callback takes the error alone.
ErrFaults == Faults \ {"nodata"}

Next ==
    \/ \E f \in Faults : GetContainers(f)
    \/ \E c \in Containers, f \in Faults : CreateContainer(c, f)
    \/ \E c \in Containers, lf \in Faults, f \in ErrFaults : DestroyContainer(c, lf, f)
    \/ \E c \in Containers, f \in Faults : GetContainer(c, f)
    \/ \E c \in Containers, fl \in Files, b \in Bodies, f \in ErrFaults :
          UploadStream(c, fl, b, f)
    \/ \E c \in Containers, fl \in Files, f \in Faults : DownloadStream(c, fl, f)
    \/ \E c \in Containers, f \in Faults : GetFiles(c, f)
    \/ \E c \in Containers, fl \in Files, f \in Faults : GetFile(c, fl, f)
    \/ \E c \in Containers, fl \in Files, f \in ErrFaults : RemoveFile(c, fl, f)
    \/ \E c \in Containers, fl \in Files, f \in Faults : Download(c, fl, f)

Spec == Init /\ [][Next]_vars

NextUpload ==
    \/ \E c \in Containers, o \in OptContainers, ps \in Parts : Upload(c, o, ps)
    \/ BusboyFile
    \/ \E h \in mw.pending, f \in ErrFaults : Uploaded(h, f)

SpecUpload == Init /\ [][NextUpload]_vars

(* ------------------------------- claims -------------------------------- *)

\* The (bucket, key) pair that the file operations resolve (container, file) to.
Resolved(container, file) == <<FileBucket(container), FileKey(container, file)>>

\* The operations that report a provider failure by cb(errorHandler(err)).
CallbackOps ==
    { "getContainers", "createContainer", "destroyContainer", "getContainer",
      "getFiles", "getFile", "removeFile" }

\* The same, among those whose provider callback also tests the result.
ResultOps ==
    { "getContainers", "createContainer", "getContainer", "getFiles", "getFile" }

\* C1: in both modes, a getContainer(c) that follows a successful
\* createContainer({name: c}), and that the transport does not fail, calls
\* back with no error and the value {name: c}.
C1_GetAfterCreate ==
    (last.op = "getContainer" /\ last.after = "createContainer"
       /\ last.fault = "none")
    => (last.outcome = "cb_ok" /\ last.name = last.container)

C1_Witness ==
    /\ last.op = "getContainer" /\ last.after = "createContainer"
    /\ last.fault = "none" /\ last.outcome = "cb_ok"
    /\ last.name = <<"d", "/", "e">>

\* C2 (as claimed): after destroyContainer(c) reports success no object
\* written under c remains, getFiles(c) is empty and getContainer(c) fails;
\* and in multi-bucket mode a non-empty container is destroyed, not rejected.
C2_Claim ==
    (last.op = "destroyContainer" /\ last.fault = "none")
    => /\ last.outcome = "cb_ok"
          => /\ \A p \in DOMAIN objects : objects[p].container # last.container
             /\ Listing(last.container) = {}
             /\ IF IsFixed
                THEN <<options.str, getContainerKey(last.container)>> \notin DOMAIN objects
                ELSE last.container \notin buckets
       /\ ~IsFixed => last.errStatus # BucketNotEmpty.statusCode

\* C3 (as claimed): a failed provider call of getFile, removeFile, getFiles,
\* downloadStream or the upload middleware reaches the caller as a callback
\* error: it is neither thrown from the provider callback nor dropped.
C3_Claim ==
    (last.op \in {"getFile", "removeFile", "getFiles", "downloadStream", "upload"}
       /\ last.failed)
    => last.outcome = "cb_err"

\* C4 (as claimed): when getObject fails during download, the response is
\* sent, with the error's status code (500 when it has none).
C4_Claim ==
    (last.op = "download" /\ last.failed)
    => /\ last.resSent
       /\ last.resStatus = IF last.errStatus = 0 THEN 500 ELSE last.errStatus

\* C5 (as claimed): for one upload request, cb is invoked at most once, and
\* never more often than the provider has acknowledged uploads.
C5_Claim == mw.cbCount <= 1 /\ mw.cbCount <= mw.acked

\* C6 (as claimed): in both modes the middleware's 'file' handler opens its
\* upload on the (bucket, key) that the file operations resolve for the
\* request's container and the part's filename, and once cb has been called
\* that object exists.
C6_Claim ==
    last.op = "upload"
    => /\ last.outcome # "thrown"
       /\ last.outcome = "piped"
          => \E h \in mw.pending :
                <<h.bucket, h.key>> = Resolved(last.container, last.file)
       /\ last.outcome = "cb_ok"
          => Resolved(last.container, last.file) \in DOMAIN objects

\* C7 (as claimed): a downloadStream(container, file) that follows the
\* completed upload of bytes through uploadStream(container, file) hands the
\* caller a stream holding exactly those bytes.
C7_Claim ==
    (last.op = "downloadStream" /\ last.after = "uploadStream"
       /\ last.fault = "none")
    => /\ last.stream
       /\ last.body = objects[Resolved(last.container, last.file)].body

\* C8: getFiles never returns an entry with the empty name; in fixed-bucket
\* mode the returned names are exactly the listed keys without the prefix
\* 'container/'; and a bucket holding just the marker 'c/' and one key 'c/f'
\* yields the single entry named f.
C8_GetFilesNames ==
    (last.op = "getFiles" /\ last.outcome = "cb_ok")
    => LET prefix == last.container \o <<Slash>>
           names == { e.name : e \in last.files }
       IN /\ \A e \in last.files : e.name # <<>>
          /\ IsFixed =>
               /\ \A n \in names : prefix \o n \in KeysIn(options.str)
               /\ \A k \in ListContents(options.str, prefix) :
                     k # prefix => \E n \in names : prefix \o n = k
               /\ \A f \in Files :
                     (f # <<>> /\ ~HasDelimiter(f)
                        /\ KeysIn(options.str) = {prefix, prefix \o f})
                     => (names = {f} /\ Cardinality(last.files) = 1)

C8_Witness ==
    /\ last.op = "getFiles" /\ last.outcome = "cb_ok" /\ IsFixed
    /\ last.container = <<"d">>
    /\ KeysIn(options.str) = { <<"d", "/">>, <<"d", "/", "r">> }
    /\ { e.name : e \in last.files } = { <<"r">> }

C10_Claim ==
    (last.op = "getFile" /\ last.outcome = "cb_ok")
    => LET obj == objects[Resolved(last.container, last.file)]
       IN obj.container = last.container /\ obj.file = last.file

====
